---- MODULE Spec2Model ----
(***************************************************************************)
(* Model of the retrieval core of rag-chatbot-groq.                        *)
(*                                                                         *)
(* The repository has two pipeline variants.  The "faiss" variant is       *)
(* vector_store_deploy.VectorStore: a Python list `documents`, a FAISS     *)
(* index `vectorstore` (None until first built) and a pickle snapshot in   *)
(* the temp directory.  The "chroma" variant is vector_store.VectorStore   *)
(* behind rag_chatbot.RAGChatbot: one persistent Chroma collection.        *)
(* A process runs one variant; `variant` says which.                       *)
(*                                                                         *)
(* Spec      handlers run one at a time, each as one step, with the        *)
(*           faults the handlers catch (embedding, snapshot write,         *)
(*           snapshot removal, snapshot load).                             *)
(* SpecConc  two threads run the faiss handlers statement by statement,    *)
(*           no faults.                                                    *)
(* SpecCrash one thread runs the faiss handlers statement by statement     *)
(*           and the process may crash and restart at any point.           *)
(* SpecApi   the HTTP API over the chroma variant: requests arrive and      *)
(*           their handlers answer them, one request at a time.            *)
(* SpecEmbed one call of get_embeddings on a list of texts.                *)
(* SpecChunk one call of chunk_documents on a text.                        *)
(* SpecProcess  DocumentProcessor(): construction, then process_document.  *)
(* SpecStartup  the construction of the components at process start.       *)
(* SpecRunner   run.py, choice 3: the runner and its two child processes.  *)
(***************************************************************************)
EXTENDS Integers, Sequences, FiniteSets, TLC

\* ---------------------------------------------------------------- bounds
\* largest number of chunks one ingested document yields
MaxBatch == 2
\* cap on the number of chunks held by a store (guards the ingest actions)
MaxDocs == 3
\* largest k a query asks for
MaxK == 2
\* source file names
Sources == {"a", "b"}
\* the threads of SpecConc / SpecCrash
Threads == {1, 2}

VARIABLES
    variant,      \* "faiss" | "chroma": the pipeline variant of this process
    documents,    \* faiss: self.documents
    vectorstore,  \* faiss: self.vectorstore ([built |-> FALSE] is None)
    file,         \* faiss: the snapshot file rag_chatbot_data.pkl
    collection,   \* chroma: the persistent collection, entries in insert order
    issued,       \* chroma: ghost, the ids add_documents passed to the collection, in order
    last,         \* ghost: records of the two latest calls, newest first
    pc,           \* per thread: the statement it is at ("idle" between calls)
    arg,          \* per thread: the documents argument of its add_documents
    local,        \* per thread: its local variables
    log,          \* ghost: the mutations begun since the process started, in order
    observed,     \* ghost: the store sizes a reader ran against
    committed,    \* ghost: documents after the latest completed successful mutation
    chatbot,      \* api.py: TRUE when the module-level chatbot was constructed, FALSE when it is None
    http,         \* the latest HTTP exchange of the API and what the handler did for it
    input,        \* the argument of the latest call of a pure function
    output,       \* what that call returned
    runner        \* run.py: the runner's position and its two child processes

vars == <<variant, documents, vectorstore, file, collection, issued, last,
          pc, arg, local, log, observed, committed, chatbot, http, input, output,
          runner>>

faissVars == <<documents, vectorstore, file>>
chromaVars == <<collection, issued>>
threadVars == <<pc, arg, local, log, observed, committed>>
apiVars == <<chatbot, http>>
fnVars == <<input, output>>

\* ------------------------------------------------------------- data model
Min(a, b) == IF a < b THEN a ELSE b

\* a chunk as process_document labels it: source and chunk_id
Chunk(src, i) == [source |-> src, chunk_id |-> i]

\* the chunks of one ingested document: chunk_id = len(metadata_list) = 0..n-1
process_document(src, n) == [i \in 1..n |-> Chunk(src, i - 1)]

\* self.vectorstore = None
NoneStore == [built |-> FALSE, index |-> <<>>]

\* FAISS.from_texts(texts, ...): a fresh index over exactly these texts
FromTexts(texts) == [built |-> TRUE, index |-> texts]

\* vectorstore.add_texts(new_texts): appends to the existing index
AddTexts(vs, texts) == [built |-> TRUE, index |-> vs.index \o texts]

\* number of entries in the index, an absent index counting as 0
IndexSize(vs) == IF vs.built THEN Len(vs.index) ELSE 0

\* the snapshot file: absent, unreadable (truncated / partial pickle), or a pickle
Absent == [state |-> "absent", documents |-> <<>>]
Corrupt == [state |-> "corrupt", documents |-> <<>>]
Pickled(docs) == [state |-> "ok", documents |-> docs]

\* a call record: the operation, its success flag, the count it returned
\* (chunks_created, total_chunks, number of results) and, for a mutation,
\* the number of chunks held before it; `why` is the message of a failure
Call(op, ok, n, before) ==
    [op |-> op, success |-> ok, n |-> n, before |-> before,
     why |-> IF ok THEN "" ELSE "error"]

\* a failure that carries its own message
Refused(op, before, message) == [Call(op, FALSE, 0, before) EXCEPT !.why = message]

\* the two latest calls, newest first
Push(r) == <<r>> \o (IF last = <<>> THEN <<>> ELSE <<last[1]>>)

\* the locals of a thread at the start of a call: `texts` is the list built on
\* line 67; `vs` and `docs` say whether the thread holds a reference to the
\* index object / the documents list and whether self still points at that
\* object ("cur") or has been rebound since ("orphan"); `saved` is the content
\* of an orphaned documents list; `fd` is the snapshot file the thread has
\* open ("unlinked" once the path was removed under it); `diedAt` is where a
\* crash caught the thread
Fresh == [texts |-> <<>>, vs |-> "none", docs |-> "none", saved |-> <<>>,
          fd |-> "none", diedAt |-> "idle"]

\* no request yet.  A request names its endpoint and carries the upload's
\* file name and size or the chat's k; `exists` says whether the path of a
\* direct add_document call is a file; `status` is 0 while the request waits
\* for its handler and the response code afterwards (1: a direct call
\* returned); `detail` is the detail of an HTTPException; `temp`: the handler
\* wrote a temporary file; `searched`: the handler called the vector store's
\* search; `seq` counts the requests so far; `initialized` is the
\* chatbot_initialized of a /health response
NoExchange == [endpoint |-> "none", name |-> <<>>, size |-> 0, k |-> 0,
               exists |-> TRUE, status |-> 1, detail |-> "", temp |-> FALSE,
               searched |-> FALSE, seq |-> 0, initialized |-> FALSE]

\* run.py is not part of the process: no runner, no child process
NoRunner == [pc |-> "off", mode |-> 0, api |-> "none", streamlit |-> "none",
             seen |-> FALSE, both |-> FALSE, rounds |-> 0, exit |-> ""]

\* the store and the threads of a process that has just started
Started ==
    /\ runner = NoRunner
    /\ documents = <<>>
    /\ vectorstore = NoneStore
    /\ file = Absent
    /\ collection = <<>>
    /\ issued = <<>>
    /\ last = <<>>
    /\ pc = [t \in Threads |-> "idle"]
    /\ arg = [t \in Threads |-> <<>>]
    /\ local = [t \in Threads |-> Fresh]
    /\ log = <<>>
    /\ observed = [docs |-> 0, idx |-> 0]
    /\ committed = <<>>
    /\ http = NoExchange
    /\ input = <<>>
    /\ output = <<>>

Init ==
    /\ variant \in {"faiss", "chroma"}
    /\ chatbot = TRUE
    /\ Started

\* ------------------------------------------- faiss variant: whole handlers
\* _save_data: the write is swallowed when it raises.  "ok" writes the pickle;
\* "open_fail": open() raised, the file is untouched; "dump_fail": open(.., 'wb')
\* truncated the file and pickle.dump raised, leaving an unreadable file.
SaveOutcomes == {"ok", "open_fail", "dump_fail"}

save_data(f, docs, outcome) ==
    CASE outcome = "ok" -> Pickled(docs)
      [] outcome = "open_fail" -> f
      [] outcome = "dump_fail" -> Corrupt

\* the index after lines 70-80: built from all of self.documents when there
\* was none, otherwise only the new texts are appended
UpdateIndex(vs, allDocs, newDocs) ==
    IF ~vs.built THEN FromTexts(allDocs) ELSE AddTexts(vs, newDocs)

\* add_documents without the `if not documents` test: an empty list runs the
\* body, which indexes nothing, writes the snapshot and reports success
add_documents_unchecked(docs, embedOk, saveOutcome) ==
    /\ variant = "faiss"
    /\ Len(documents) + Len(docs) <= MaxDocs
    /\ documents' = documents \o docs
    /\ IF embedOk
       THEN /\ vectorstore' = IF docs = <<>> THEN vectorstore
                                ELSE UpdateIndex(vectorstore, documents', docs)
            /\ file' = save_data(file, documents', saveOutcome)
            /\ last' = Push(Call("add_documents", TRUE, Len(docs), Len(documents)))
       ELSE /\ last' = Push(Call("add_documents", FALSE, 0, Len(documents)))
            /\ UNCHANGED <<vectorstore, file>>
    /\ UNCHANGED <<variant, runner, apiVars, fnVars, chromaVars, threadVars>>

\* VectorStore.add_documents (vector_store_deploy.py)
add_documents(docs, embedOk, saveOutcome) ==
    /\ variant = "faiss"
    /\ Len(documents) + Len(docs) <= MaxDocs
    /\ IF docs = <<>>
       THEN /\ last' = Push(Refused("add_documents", Len(documents), "No documents to add"))
            /\ UNCHANGED faissVars
       ELSE /\ documents' = documents \o docs
            /\ IF embedOk
               THEN /\ vectorstore' = UpdateIndex(vectorstore, documents', docs)
                    /\ file' = save_data(file, documents', saveOutcome)
                    /\ last' = Push(Call("add_documents", TRUE, Len(docs), Len(documents)))
               ELSE /\ last' = Push(Call("add_documents", FALSE, 0, Len(documents)))
                    /\ UNCHANGED <<vectorstore, file>>
    /\ UNCHANGED <<variant, runner, apiVars, fnVars, chromaVars, threadVars>>

\* similarity_search without the `vectorstore is None` test and without the
\* except clause: searching a missing index raises
similarity_search_unguarded(k, searchOk) ==
    /\ variant = "faiss"
    /\ LET ok == vectorstore.built /\ searchOk
       IN  last' = Push(Call("similarity_search", ok,
                             IF ok THEN Min(k, Len(vectorstore.index)) ELSE 0, 0))
    /\ UNCHANGED <<variant, runner, apiVars, fnVars, faissVars, chromaVars, threadVars>>

\* VectorStore.similarity_search: [] without an index, [] when the search raises
similarity_search(k, searchOk) ==
    /\ variant = "faiss"
    /\ LET n == IF vectorstore.built /\ searchOk
                THEN Min(k, Len(vectorstore.index)) ELSE 0
       IN  last' = Push(Call("similarity_search", TRUE, n, 0))
    /\ UNCHANGED <<variant, runner, apiVars, fnVars, faissVars, chromaVars, threadVars>>

\* what VectorStore.get_stats returns for a documents list: total_chunks =
\* len(self.documents), source_files = the distinct metadata['source'],
\* total_documents = len(source_files)
get_stats_value(docs) ==
    LET source_files == {docs[i].source : i \in 1..Len(docs)}
    IN  [total_documents |-> Cardinality(source_files),
         total_chunks |-> Len(docs),
         source_files |-> source_files]

\* VectorStore.get_stats: total_chunks = len(self.documents)
get_stats ==
    /\ variant = "faiss"
    /\ last' = Push(Call("get_stats", TRUE, Len(documents), 0))
    /\ UNCHANGED <<variant, runner, apiVars, fnVars, faissVars, chromaVars, threadVars>>

\* clear_all without the os.path.exists test: removing a missing file raises
clear_all_unguarded(removeOk) ==
    /\ variant = "faiss"
    /\ documents' = <<>>
    /\ vectorstore' = NoneStore
    /\ IF file.state # "absent" /\ removeOk
       THEN /\ file' = Absent
            /\ last' = Push(Call("clear", TRUE, 0, Len(documents)))
       ELSE /\ UNCHANGED file
            /\ last' = Push(Call("clear", FALSE, 0, Len(documents)))
    /\ UNCHANGED <<variant, runner, apiVars, fnVars, chromaVars, threadVars>>

\* VectorStore.clear_all: memory is cleared first, then the snapshot is removed
clear_all(removeOk) ==
    /\ variant = "faiss"
    /\ documents' = <<>>
    /\ vectorstore' = NoneStore
    /\ IF file.state = "absent"
       THEN /\ UNCHANGED file
            /\ last' = Push(Call("clear", TRUE, 0, Len(documents)))
       ELSE IF removeOk
            THEN /\ file' = Absent
                 /\ last' = Push(Call("clear", TRUE, 0, Len(documents)))
            ELSE /\ UNCHANGED file
                 /\ last' = Push(Call("clear", FALSE, 0, Len(documents)))
    /\ UNCHANGED <<variant, runner, apiVars, fnVars, chromaVars, threadVars>>

\* _load_existing_data whose handler does not reset self.documents
load_existing_data_keep(f, rebuildOk) ==
    IF f.state = "ok" /\ f.documents # <<>>
    THEN IF rebuildOk
         THEN [documents |-> f.documents, vectorstore |-> FromTexts(f.documents)]
         ELSE [documents |-> f.documents, vectorstore |-> NoneStore]
    ELSE [documents |-> <<>>, vectorstore |-> NoneStore]

\* _load_existing_data: the state of a fresh VectorStore() given the snapshot.
\* rebuildOk = FALSE: FAISS.from_texts raised while recreating the index.
load_existing_data(f, rebuildOk) ==
    IF f.state = "ok" /\ f.documents # <<>> /\ rebuildOk
    THEN [documents |-> f.documents, vectorstore |-> FromTexts(f.documents)]
    ELSE [documents |-> <<>>, vectorstore |-> NoneStore]

\* ------------------------------------------ chroma variant: whole handlers
\* cap on the ids handed out between two clears
MaxIssued == 4

\* the ids already in the collection
Ids(coll) == {coll[i].id : i \in 1..Len(coll)}

\* collection.add(documents, metadatas, ids): an id that is already in the
\* collection is skipped, the others are appended
CollectionAdd(coll, batch) ==
    coll \o SelectSeq(batch, LAMBDA e : e.id \notin Ids(coll))

\* VectorStore.add_documents (vector_store.py): ids = doc_0 .. doc_{n-1}
chroma_add_documents(coll, texts) ==
    CollectionAdd(coll, [i \in 1..Len(texts) |-> [id |-> i - 1, doc |-> texts[i]]])

\* add_documents without the length test: the texts are stored as they come
store_add_documents_unchecked(texts, metadata, addOk) ==
    /\ variant = "chroma"
    /\ Len(issued) + Len(texts) <= MaxIssued
    /\ IF texts = <<>>
       THEN /\ last' = Push(Refused("store_add_documents", Len(collection),
                                    "Expected IDs to be a non-empty list"))
            /\ UNCHANGED chromaVars
       ELSE IF ~addOk
       THEN /\ last' = Push(Call("store_add_documents", FALSE, 0, Len(collection)))
            /\ UNCHANGED chromaVars
       ELSE /\ issued' = issued \o [i \in 1..Len(texts) |-> i - 1]
            /\ collection' = chroma_add_documents(collection, texts)
            /\ last' = Push(Call("store_add_documents", TRUE, Len(texts), Len(collection)))
    /\ UNCHANGED <<variant, runner, apiVars, fnVars, faissVars, threadVars>>

\* VectorStore.add_documents(texts, metadata) (vector_store.py) called on its
\* own: ValueError when the two lists differ in length, before ids are made;
\* otherwise the texts go to collection.add under ids doc_0 .. doc_{n-1}
store_add_documents(texts, metadata, addOk) ==
    /\ variant = "chroma"
    /\ Len(issued) + Len(texts) <= MaxIssued
    /\ IF Len(texts) # Len(metadata)
       THEN /\ last' = Push(Refused("store_add_documents", Len(collection),
                                    "Number of texts must match number of metadata entries"))
            /\ UNCHANGED chromaVars
       ELSE IF texts = <<>>
       THEN /\ last' = Push(Refused("store_add_documents", Len(collection),
                                    "Expected IDs to be a non-empty list"))
            /\ UNCHANGED chromaVars
       ELSE IF ~addOk
       THEN /\ last' = Push(Call("store_add_documents", FALSE, 0, Len(collection)))
            /\ UNCHANGED chromaVars
       ELSE /\ issued' = issued \o [i \in 1..Len(texts) |-> i - 1]
            /\ collection' = chroma_add_documents(collection, texts)
            /\ last' = Push(Call("store_add_documents", TRUE, Len(texts), Len(collection)))
    /\ UNCHANGED <<variant, runner, apiVars, fnVars, faissVars, threadVars>>

\* A file name is a sequence of pieces, each a dot or a dot-free word.
\* longest file name, in pieces
MaxName == 3

Pieces == {".", "PDF", "md", "exe"}

Filenames == UNION {[1..n -> Pieces] : n \in 1..MaxName}

\* the extension as "." + name.split('.')[-1]: a name without a dot is
\* taken whole as its own extension
splitext_by_split(name) ==
    LET dots == {i \in 1..Len(name) : name[i] = "."}
        dotIndex == IF dots = {} THEN 0
                    ELSE CHOOSE i \in dots : \A j \in dots : j <= i
    IN  <<".">> \o SubSeq(name, dotIndex + 1, Len(name))

\* os.path.splitext(name)[1]: from the last dot on, unless nothing but dots
\* comes before it; empty when there is no such dot
splitext(name) ==
    LET dots == {i \in 1..Len(name) : name[i] = "."}
        dotIndex == IF dots = {} THEN 0
                    ELSE CHOOSE i \in dots : \A j \in dots : j <= i
    IN  IF dotIndex > 0 /\ \E j \in 1..(dotIndex - 1) : name[j] # "."
        THEN SubSeq(name, dotIndex, Len(name))
        ELSE <<>>

\* str.lower() on an extension
lower(ext) == [i \in 1..Len(ext) |-> IF ext[i] = "PDF" THEN "pdf" ELSE ext[i]]

\* DocumentProcessor.load_document: the loader chosen for the path, or the
\* message of the exception it raises
load_document(path, exists) ==
    IF ~exists THEN "File not found"
    ELSE LET file_extension == lower(splitext(path))
         IN  IF file_extension = <<".", "pdf">> THEN "PyPDFLoader"
             ELSE IF file_extension \in {<<".", "txt">>, <<".", "md">>} THEN "TextLoader"
             ELSE "Unsupported file type"

\* the paths add_document is called with under Spec
SomePaths == {<<"a", ".", "md">>, <<"a", ".", "exe">>}

\* add_document past its loader: the document was loaded, `src` stands for
\* its path in the chunk metadata and n is the number of chunks it yields.
\* procOk = FALSE: parsing, splitting or embedding raised; addOk = FALSE:
\* collection.add raised; an empty ids list is rejected by collection.add.
Ingest(src, n, procOk, addOk) ==
    /\ Len(issued) + n <= MaxIssued
    /\ IF ~procOk
       THEN /\ last' = Push(Call("add_document", FALSE, 0, Len(collection)))
            /\ UNCHANGED chromaVars
       ELSE IF n = 0
            THEN /\ last' = Push(Refused("add_document", Len(collection),
                                         "Expected IDs to be a non-empty list"))
                 /\ UNCHANGED chromaVars
            ELSE IF ~addOk
            THEN /\ last' = Push(Call("add_document", FALSE, 0, Len(collection)))
                 /\ UNCHANGED chromaVars
            ELSE /\ issued' = issued \o [i \in 1..n |-> i - 1]
                 /\ collection' = chroma_add_documents(collection, process_document(src, n))
                 /\ last' = Push(Call("add_document", TRUE, n, Len(collection)))

\* RAGChatbot.add_document(path): load_document, process_document, then
\* add_documents; every exception becomes success = False
AddDocument(path, exists) ==
    LET loaded == load_document(path, exists)
    IN  IF loaded \in {"File not found", "Unsupported file type"}
        THEN /\ last' = Push(Refused("add_document", Len(collection), loaded))
             /\ UNCHANGED chromaVars
        ELSE \E src \in Sources, n \in 0..MaxBatch, procOk \in BOOLEAN, addOk \in BOOLEAN :
                Ingest(src, n, procOk, addOk)

add_document(path, exists) ==
    /\ variant = "chroma"
    /\ AddDocument(path, exists)
    /\ UNCHANGED <<variant, runner, apiVars, fnVars, faissVars, threadVars>>

\* RAGChatbot.clear_knowledge_base -> VectorStore.clear_collection
ClearKnowledgeBase ==
    /\ collection' = <<>>
    /\ issued' = <<>>
    /\ last' = Push(Call("clear", TRUE, 0, Len(collection)))

clear_knowledge_base ==
    /\ variant = "chroma"
    /\ ClearKnowledgeBase
    /\ UNCHANGED <<variant, runner, apiVars, fnVars, faissVars, threadVars>>

\* what VectorStore.get_collection_stats (vector_store.py) returns:
\* total_documents = collection.count(), collection_name = Config.COLLECTION_NAME
get_collection_stats(coll) ==
    [total_documents |-> Len(coll), collection_name |-> "documents"]

\* RAGChatbot.get_knowledge_base_stats -> get_collection_stats
get_knowledge_base_stats ==
    /\ variant = "chroma"
    /\ last' = Push(Call("get_stats", TRUE, Len(collection), 0))
    /\ UNCHANGED <<variant, runner, apiVars, fnVars, faissVars, chromaVars, threadVars>>

\* RAGChatbot.chat(query, k): retrieval through similarity_search with the
\* caller's k; a raise becomes success = False.  The collection refuses a
\* result count that is not positive.
Chat(k, searchOk) ==
    LET ok == searchOk /\ k > 0
    IN  last' = Push(Call("similarity_search", ok,
                          IF ok THEN Min(k, Len(collection)) ELSE 0, 0))

chat(k, searchOk) ==
    /\ variant = "chroma"
    /\ Chat(k, searchOk)
    /\ UNCHANGED <<variant, runner, apiVars, fnVars, faissVars, chromaVars, threadVars>>

\* process restart: a new VectorStore() is constructed.  The faiss variant
\* rehydrates from the snapshot; the chroma collection is the persisted state.
Restart(rebuildOk) ==
    /\ IF variant = "faiss"
       THEN LET s == load_existing_data(file, rebuildOk)
            IN  /\ documents' = s.documents
                /\ vectorstore' = s.vectorstore
                /\ last' = Push(Call("restart", TRUE, Len(s.documents), 0))
       ELSE /\ UNCHANGED <<documents, vectorstore>>
            /\ last' = Push(Call("restart", TRUE, Len(collection), 0))
    /\ UNCHANGED <<variant, runner, apiVars, fnVars, file, chromaVars, threadVars>>

Batches == {process_document(src, n) : src \in Sources, n \in 0..MaxBatch}

\* the metadata lists of a direct insert; only their length is looked at
MetadataLists == {[i \in 1..m |-> [source |-> "a", chunk_id |-> i - 1]] : m \in 0..MaxBatch}

Next ==
    \/ \E docs \in Batches, embedOk \in BOOLEAN, so \in SaveOutcomes :
          add_documents(docs, embedOk, so)
    \/ \E k \in 1..MaxK, searchOk \in BOOLEAN : similarity_search(k, searchOk)
    \/ get_stats
    \/ \E removeOk \in BOOLEAN : clear_all(removeOk)
    \/ \E path \in SomePaths, exists \in BOOLEAN : add_document(path, exists)
    \/ \E texts \in Batches, metadata \in MetadataLists, addOk \in BOOLEAN :
          store_add_documents(texts, metadata, addOk)
    \/ clear_knowledge_base
    \/ get_knowledge_base_stats
    \/ \E k \in 1..MaxK, searchOk \in BOOLEAN : chat(k, searchOk)
    \/ \E rebuildOk \in BOOLEAN : Restart(rebuildOk)

Spec == Init /\ [][Next]_vars

\* ------------------------------------------------- the HTTP API (api.py)
\* upload sizes in bytes, around the limit of the upload handler
UploadSizes == {10485759, 10485760, 10485761}

\* cap on the number of requests the API model serves
MaxRequests == 2

\* the k of a chat request: ChatRequest.k is any integer
RequestedK == (0 - 1)..MaxK

Request(endpoint, name, size, k, exists) ==
    [endpoint |-> endpoint, name |-> name, size |-> size, k |-> k,
     exists |-> exists, status |-> 0, detail |-> "", temp |-> FALSE,
     searched |-> FALSE, seq |-> http.seq + 1, initialized |-> FALSE]

\* no request is waiting and the cap is not reached
Idle == http.status # 0 /\ http.seq < MaxRequests

\* the exchange once the handler returned; the file name is not kept
Answer(req, status, detail, temp, searched) ==
    [req EXCEPT !.name = <<>>, !.status = status, !.detail = detail,
                !.temp = temp, !.searched = searched]

Waiting(endpoint) == http.endpoint = endpoint /\ http.status = 0

\* a client posts a file to /upload-document
post_upload_document(name, size) ==
    /\ Idle
    /\ http' = Request("upload", name, size, 0, TRUE)
    /\ UNCHANGED <<variant, runner, chatbot, last, fnVars, faissVars, chromaVars, threadVars>>

\* a client posts a ChatRequest to /chat
post_chat(k) ==
    /\ Idle
    /\ http' = Request("chat", <<>>, 0, k, TRUE)
    /\ UNCHANGED <<variant, runner, chatbot, last, fnVars, faissVars, chromaVars, threadVars>>

\* a caller in the process invokes RAGChatbot.add_document(path)
call_add_document(path, exists) ==
    /\ Idle
    /\ chatbot
    /\ http' = Request("add_document", path, 0, 0, exists)
    /\ UNCHANGED <<variant, runner, chatbot, last, fnVars, faissVars, chromaVars, threadVars>>

allowed_extensions == {<<".", "pdf">>, <<".", "txt">>, <<".", "md">>}

\* the upload handler with `>=` in the size test
api_upload_document_ge ==
    /\ Waiting("upload")
    /\ IF ~chatbot
       THEN /\ http' = Answer(http, 500, "Chatbot not initialized", FALSE, FALSE)
            /\ UNCHANGED <<last, chromaVars>>
       ELSE LET file_extension == lower(splitext(http.name))
            IN  IF file_extension \notin allowed_extensions
                THEN /\ http' = Answer(http, 400, "Unsupported file type", FALSE, FALSE)
                     /\ UNCHANGED <<last, chromaVars>>
                ELSE IF http.size >= 10 * 1024 * 1024
                THEN /\ http' = Answer(http, 400, "File too large", FALSE, FALSE)
                     /\ UNCHANGED <<last, chromaVars>>
                ELSE \E tempOk \in BOOLEAN :
                        IF ~tempOk
                        THEN /\ http' = Answer(http, 500, "error", TRUE, FALSE)
                             /\ UNCHANGED <<last, chromaVars>>
                        ELSE /\ AddDocument(<<"tmp">> \o file_extension, TRUE)
                             /\ http' = Answer(http, 200, "", TRUE, FALSE)
    /\ UNCHANGED <<variant, runner, chatbot, fnVars, faissVars, threadVars>>

\* upload_document (api.py): 500 without a chatbot; the extension test, then
\* the size test, each answering 400; then the content goes to a temporary
\* file whose suffix is the extension and add_document runs on it.
\* tempOk = FALSE: writing or removing the temporary file raised.
api_upload_document ==
    /\ Waiting("upload")
    /\ IF ~chatbot
       THEN /\ http' = Answer(http, 500, "Chatbot not initialized", FALSE, FALSE)
            /\ UNCHANGED <<last, chromaVars>>
       ELSE LET file_extension == lower(splitext(http.name))
            IN  IF file_extension \notin allowed_extensions
                THEN /\ http' = Answer(http, 400, "Unsupported file type", FALSE, FALSE)
                     /\ UNCHANGED <<last, chromaVars>>
                ELSE IF http.size > 10 * 1024 * 1024
                THEN /\ http' = Answer(http, 400, "File too large", FALSE, FALSE)
                     /\ UNCHANGED <<last, chromaVars>>
                ELSE \E tempOk \in BOOLEAN :
                        IF ~tempOk
                        THEN /\ http' = Answer(http, 500, "error", TRUE, FALSE)
                             /\ UNCHANGED <<last, chromaVars>>
                        ELSE /\ AddDocument(<<"tmp">> \o file_extension, TRUE)
                             /\ http' = Answer(http, 200, "", TRUE, FALSE)
    /\ UNCHANGED <<variant, runner, chatbot, fnVars, faissVars, threadVars>>

\* chat (api.py): 500 without a chatbot, otherwise request.k goes to
\* RAGChatbot.chat as it came and the result is answered with 200
api_chat ==
    /\ Waiting("chat")
    /\ IF ~chatbot
       THEN /\ http' = Answer(http, 500, "Chatbot not initialized", FALSE, FALSE)
            /\ UNCHANGED last
       ELSE \E searchOk \in BOOLEAN :
               /\ Chat(http.k, searchOk)
               /\ http' = Answer(http, 200, "", FALSE, TRUE)
    /\ UNCHANGED <<variant, runner, chatbot, fnVars, faissVars, chromaVars, threadVars>>

\* a client gets /stats
get_stats_request ==
    /\ Idle
    /\ http' = Request("stats", <<>>, 0, 0, TRUE)
    /\ UNCHANGED <<variant, runner, chatbot, last, fnVars, faissVars, chromaVars, threadVars>>

\* a client sends DELETE /clear-knowledge-base
delete_clear_knowledge_base ==
    /\ Idle
    /\ http' = Request("clear", <<>>, 0, 0, TRUE)
    /\ UNCHANGED <<variant, runner, chatbot, last, fnVars, faissVars, chromaVars, threadVars>>

\* a client gets /health
get_health ==
    /\ Idle
    /\ http' = Request("health", <<>>, 0, 0, TRUE)
    /\ UNCHANGED <<variant, runner, chatbot, last, fnVars, faissVars, chromaVars, threadVars>>

\* the stats handler that does not test the chatbot: None has no
\* get_knowledge_base_stats, the AttributeError is answered as 500 by the
\* handler's except clause
api_get_stats_untested ==
    /\ Waiting("stats")
    /\ IF ~chatbot
       THEN /\ http' = Answer(http, 500, "error", FALSE, FALSE)
            /\ UNCHANGED last
       ELSE \E statsOk \in BOOLEAN :
               IF statsOk
               THEN /\ last' = Push(Call("get_stats", TRUE,
                                         get_collection_stats(collection).total_documents, 0))
                    /\ http' = Answer(http, 200, "", FALSE, FALSE)
               ELSE /\ last' = Push(Call("get_stats", FALSE, 0, 0))
                    /\ http' = Answer(http, 500, "error", FALSE, FALSE)
    /\ UNCHANGED <<variant, runner, chatbot, fnVars, faissVars, chromaVars, threadVars>>

\* get_stats (api.py): 500 without a chatbot; otherwise the statistics of
\* get_knowledge_base_stats as a StatsResponse, and 500 when that raised
\* (statsOk = FALSE: collection.count() raised)
api_get_stats ==
    /\ Waiting("stats")
    /\ IF ~chatbot
       THEN /\ http' = Answer(http, 500, "Chatbot not initialized", FALSE, FALSE)
            /\ UNCHANGED last
       ELSE \E statsOk \in BOOLEAN :
               IF statsOk
               THEN /\ last' = Push(Call("get_stats", TRUE,
                                         get_collection_stats(collection).total_documents, 0))
                    /\ http' = Answer(http, 200, "", FALSE, FALSE)
               ELSE /\ last' = Push(Call("get_stats", FALSE, 0, 0))
                    /\ http' = Answer(http, 500, "error", FALSE, FALSE)
    /\ UNCHANGED <<variant, runner, chatbot, fnVars, faissVars, chromaVars, threadVars>>

\* clear_knowledge_base (api.py): 500 without a chatbot; otherwise the
\* result of RAGChatbot.clear_knowledge_base is returned with 200
api_clear_knowledge_base ==
    /\ Waiting("clear")
    /\ IF ~chatbot
       THEN /\ http' = Answer(http, 500, "Chatbot not initialized", FALSE, FALSE)
            /\ UNCHANGED <<last, chromaVars>>
       ELSE /\ ClearKnowledgeBase
            /\ http' = Answer(http, 200, "", FALSE, FALSE)
    /\ UNCHANGED <<variant, runner, chatbot, fnVars, faissVars, threadVars>>

\* health_check (api.py): always 200, reports chatbot_initialized =
\* (chatbot is not None)
api_health_check ==
    /\ Waiting("health")
    /\ http' = [Answer(http, 200, "", FALSE, FALSE) EXCEPT !.initialized = chatbot]
    /\ UNCHANGED <<variant, runner, chatbot, last, fnVars, faissVars, chromaVars, threadVars>>

\* the direct call runs and returns
return_add_document ==
    /\ Waiting("add_document")
    /\ AddDocument(http.name, http.exists)
    /\ http' = Answer(http, 1, "", FALSE, FALSE)
    /\ UNCHANGED <<variant, runner, chatbot, fnVars, faissVars, threadVars>>

\* the API process: the chroma variant, the chatbot constructed or not
InitApi ==
    /\ variant = "chroma"
    /\ chatbot \in BOOLEAN
    /\ Started

NextApi ==
    \/ \E name \in Filenames, size \in UploadSizes : post_upload_document(name, size)
    \/ \E k \in RequestedK : post_chat(k)
    \/ \E path \in Filenames, exists \in BOOLEAN : call_add_document(path, exists)
    \/ get_stats_request
    \/ delete_clear_knowledge_base
    \/ get_health
    \/ api_upload_document
    \/ api_chat
    \/ api_get_stats
    \/ api_clear_knowledge_base
    \/ api_health_check
    \/ return_add_document

SpecApi == InitApi /\ [][NextApi]_vars

\* ------------------------------- get_embeddings (document_processor.py)
\* longest list of texts handed to get_embeddings
MaxTexts == 33
\* number of distinct texts
TextKinds == 3

batch_size == 32

\* a list of n texts: text number (i + p) mod TextKinds at position i
TextList(n, p) == [i \in 1..n |-> (i + p) % TextKinds]

TextLists == {TextList(n, p) : n \in 0..MaxTexts, p \in 0..(TextKinds - 1)}

\* the vector the embedding model gives one text
Vector(text) == <<text, TextKinds - text>>

\* self.embeddings.embed_documents(batch): one vector per text of the batch
embed_documents(batch) == [j \in 1..Len(batch) |-> Vector(batch[j])]

\* the loop with batch = texts[i:i + batch_size - 1]
RECURSIVE embed_from_short(_, _)
embed_from_short(texts, i) ==
    IF i >= Len(texts) THEN <<>>
    ELSE embed_documents(SubSeq(texts, i + 1, Min(i + batch_size - 1, Len(texts))))
         \o embed_from_short(texts, i + batch_size)

\* the loop `for i in range(0, len(texts), batch_size)` from index i on:
\* batch = texts[i:i + batch_size], all_embeddings.extend(batch_embeddings)
RECURSIVE embed_from(_, _)
embed_from(texts, i) ==
    IF i >= Len(texts) THEN <<>>
    ELSE embed_documents(SubSeq(texts, i + 1, Min(i + batch_size, Len(texts))))
         \o embed_from(texts, i + batch_size)

\* DocumentProcessor.get_embeddings
get_embeddings(texts) == embed_from(texts, 0)

\* a call of a pure function that has not run yet
NotCalled == [called |-> FALSE, value |-> <<>>]
Returned(v) == [called |-> TRUE, value |-> v]

\* get_embeddings is called on the two halves of `input` joined
call_get_embeddings ==
    /\ output = NotCalled
    /\ output' = Returned(get_embeddings(input.A \o input.B))
    /\ UNCHANGED <<variant, runner, apiVars, input, last, faissVars, chromaVars, threadVars>>

\* the rest of the process does not take part in a call of a pure function
Elsewhere ==
    /\ variant = "chroma"
    /\ chatbot = TRUE
    /\ documents = <<>> /\ vectorstore = NoneStore /\ file = Absent
    /\ collection = <<>> /\ issued = <<>> /\ last = <<>>
    /\ pc = [t \in Threads |-> "idle"]
    /\ arg = [t \in Threads |-> <<>>]
    /\ local = [t \in Threads |-> Fresh]
    /\ log = <<>> /\ observed = [docs |-> 0, idx |-> 0] /\ committed = <<>>
    /\ http = NoExchange
    /\ runner = NoRunner

InitEmbed ==
    /\ Elsewhere
    /\ input \in [A : TextLists, B : TextLists]
    /\ output = NotCalled

NextEmbed == call_get_embeddings

SpecEmbed == InitEmbed /\ [][NextEmbed]_vars

\* ------------------------------ chunk_documents (document_processor.py)
\* The splitter is RecursiveCharacterTextSplitter(chunk_size, chunk_overlap,
\* length_function=len) with its defaults: separators "\n\n", "\n", " ", "",
\* the separator kept at the start of each piece, chunks stripped of
\* surrounding whitespace.  A text is a sequence of characters; the texts
\* here hold no newline, so the first two separators never match.
\* longest text, in characters
MaxText == 5
\* largest chunk_size
MaxChunk == 3

Characters == {"a", "b", " "}

Texts == UNION {[1..n -> Characters] : n \in 0..MaxText}

separators == <<" ", "">>

\* the first separator that is "" or occurs in the text
SeparatorIndex(text, seps) ==
    LET found == {i \in 1..Len(seps) :
                    seps[i] = "" \/ \E j \in 1..Len(text) : text[j] = seps[i]}
    IN  IF found = {} THEN Len(seps)
        ELSE CHOOSE i \in found : \A j \in found : i <= j

\* _split_text_with_regex with keep_separator: the pieces of text[start..],
\* each running up to the next separator, which opens the following piece;
\* with the separator "" every character is a piece; empty pieces are left out
RECURSIVE split_text_with_regex(_, _, _)
split_text_with_regex(text, separator, start) ==
    IF start > Len(text) THEN <<>>
    ELSE LET later == {i \in (start + 1)..Len(text) :
                         separator = "" \/ text[i] = separator}
             next == IF later = {} THEN Len(text) + 1
                     ELSE CHOOSE i \in later : \A j \in later : i <= j
         IN  <<SubSeq(text, start, next - 1)>>
             \o split_text_with_regex(text, separator, next)

RECURSIVE Concat(_)
Concat(pieces) == IF pieces = <<>> THEN <<>> ELSE Head(pieces) \o Concat(Tail(pieces))

\* str.strip()
RECURSIVE strip(_)
strip(text) ==
    IF text = <<>> THEN <<>>
    ELSE IF Head(text) = " " THEN strip(Tail(text))
    ELSE IF text[Len(text)] = " " THEN strip(SubSeq(text, 1, Len(text) - 1))
    ELSE text

\* _join_docs with the separator "": the pieces joined and stripped, no chunk
\* when nothing is left
join_docs(current_doc) ==
    LET text == strip(Concat(current_doc))
    IN  IF text = <<>> THEN <<>> ELSE <<text>>

\* the while loop of _merge_splits: pieces leave the front of current_doc
\* until at most chunk_overlap characters stay and the next piece fits
RECURSIVE pop_front(_, _, _, _)
pop_front(current_doc, len, chunk_size, chunk_overlap) ==
    LET total == Len(Concat(current_doc))
    IN  IF total > chunk_overlap \/ (total + len > chunk_size /\ total > 0)
        THEN pop_front(Tail(current_doc), len, chunk_size, chunk_overlap)
        ELSE current_doc

\* _merge_splits with the separator "", from piece i on
RECURSIVE merge_splits(_, _, _, _, _)
merge_splits(splits, i, current_doc, chunk_size, chunk_overlap) ==
    IF i > Len(splits) THEN join_docs(current_doc)
    ELSE LET d == splits[i]
             total == Len(Concat(current_doc))
         IN  IF total + Len(d) > chunk_size /\ current_doc # <<>>
             THEN join_docs(current_doc)
                  \o merge_splits(splits, i + 1,
                                  Append(pop_front(current_doc, Len(d),
                                                   chunk_size, chunk_overlap), d),
                                  chunk_size, chunk_overlap)
             ELSE merge_splits(splits, i + 1, Append(current_doc, d),
                               chunk_size, chunk_overlap)

\* RecursiveCharacterTextSplitter._split_text: pieces shorter than chunk_size
\* are collected and merged; a piece that is not is split again with the
\* remaining separators, or kept whole when none remains
RECURSIVE split_text(_, _, _, _)
RECURSIVE split_pieces(_, _, _, _, _, _)
split_pieces(splits, i, good_splits, new_separators, chunk_size, chunk_overlap) ==
    LET merged == IF good_splits = <<>> THEN <<>>
                  ELSE merge_splits(good_splits, 1, <<>>, chunk_size, chunk_overlap)
    IN  IF i > Len(splits) THEN merged
        ELSE IF Len(splits[i]) < chunk_size
        THEN split_pieces(splits, i + 1, Append(good_splits, splits[i]),
                          new_separators, chunk_size, chunk_overlap)
        ELSE merged
             \o (IF new_separators = <<>> THEN <<splits[i]>>
                 ELSE split_text(splits[i], new_separators, chunk_size, chunk_overlap))
             \o split_pieces(splits, i + 1, <<>>, new_separators,
                             chunk_size, chunk_overlap)

split_text(text, seps, chunk_size, chunk_overlap) ==
    LET s == SeparatorIndex(text, seps)
        new_separators == IF seps[s] = "" THEN <<>> ELSE SubSeq(seps, s + 1, Len(seps))
    IN  split_pieces(split_text_with_regex(text, seps[s], 1), 1, <<>>,
                     new_separators, chunk_size, chunk_overlap)

\* DocumentProcessor.chunk_documents on one loaded document
chunk_documents(text, chunk_size, chunk_overlap) ==
    split_text(text, separators, chunk_size, chunk_overlap)

call_chunk_documents ==
    /\ output = NotCalled
    /\ output' = Returned(chunk_documents(input.text, input.chunk_size,
                                          input.chunk_overlap))
    /\ UNCHANGED <<variant, runner, apiVars, input, last, faissVars, chromaVars, threadVars>>

InitChunk ==
    /\ Elsewhere
    /\ input \in {in \in [text : Texts, chunk_size : 1..MaxChunk,
                           chunk_overlap : 0..(MaxChunk - 1)] :
                     in.chunk_overlap < in.chunk_size}
    /\ output = NotCalled

NextChunk == call_chunk_documents

SpecChunk == InitChunk /\ [][NextChunk]_vars

\* ------------------------ DocumentProcessor (document_processor.py), whole
\* DocumentProcessor() builds the splitter from Config.CHUNK_SIZE and
\* Config.CHUNK_OVERLAP, which come from the environment unvalidated; the
\* splitter's constructor raises ValueError when chunk_overlap is larger
\* than chunk_size and accepts every other pair.
text_splitter_init(chunk_size, chunk_overlap) ==
    IF chunk_overlap > chunk_size
    THEN Refused("DocumentProcessor", 0, "Got a larger chunk overlap than chunk size")
    ELSE Call("DocumentProcessor", TRUE, 0, 0)

\* the loop that labels chunks i.. with chunk_id = chunk_id + 1
RECURSIVE prepare_metadata_from_one(_, _, _, _)
prepare_metadata_from_one(chunks, i, file_path, metadata_list) ==
    IF i > Len(chunks) THEN metadata_list
    ELSE prepare_metadata_from_one(chunks, i + 1, file_path,
             Append(metadata_list,
                    [source |-> file_path, chunk_id |-> Len(metadata_list) + 1]))

\* the loop `for chunk in chunks` of process_document from chunk number i on:
\* metadata['source'] = file_path, metadata['chunk_id'] = len(metadata_list),
\* metadata_list.append(metadata)
RECURSIVE prepare_metadata(_, _, _, _)
prepare_metadata(chunks, i, file_path, metadata_list) ==
    IF i > Len(chunks) THEN metadata_list
    ELSE prepare_metadata(chunks, i + 1, file_path,
             Append(metadata_list,
                    [source |-> file_path, chunk_id |-> Len(metadata_list)]))

\* DocumentProcessor.process_document on a file holding one text: the texts
\* of the chunks and their metadata (the embeddings are get_embeddings of the
\* texts and are left out here)
process_document_full(file_path, text, chunk_size, chunk_overlap) ==
    LET chunks == chunk_documents(text, chunk_size, chunk_overlap)
    IN  [texts |-> chunks,
         metadata |-> prepare_metadata(chunks, 1, file_path, <<>>)]

\* DocumentProcessor() with the configuration of `input`
DocumentProcessor_init ==
    /\ last = <<>>
    /\ last' = Push(text_splitter_init(input.chunk_size, input.chunk_overlap))
    /\ UNCHANGED <<variant, runner, apiVars, fnVars, faissVars, chromaVars, threadVars>>

\* process_document on a constructed processor
call_process_document ==
    /\ last # <<>> /\ last[1].success
    /\ ~output.called
    /\ output' = Returned(process_document_full(input.source, input.text,
                                                input.chunk_size, input.chunk_overlap))
    /\ UNCHANGED <<variant, runner, apiVars, input, last, faissVars, chromaVars, threadVars>>

InitProcess ==
    /\ Elsewhere
    /\ input \in [source : Sources, text : Texts, chunk_size : 1..MaxChunk,
                  chunk_overlap : 0..(MaxChunk + 1)]
    /\ output = NotCalled

NextProcess == DocumentProcessor_init \/ call_process_document

SpecProcess == InitProcess /\ [][NextProcess]_vars

\* ------------------------------------------------------ process startup
\* The snapshot a starting process finds: none, an unreadable one, or the
\* pickle of a documents list made of earlier ingests' batches.
RECURSIVE BatchRuns(_)
BatchRuns(n) ==
    IF n = 0 THEN {<<>>}
    ELSE BatchRuns(n - 1) \cup
         {run \o process_document(src, m) :
            run \in BatchRuns(n - 1), src \in Sources, m \in 1..MaxBatch}

Snapshots ==
    {Absent, Corrupt} \cup
    {Pickled(docs) : docs \in {run \in BatchRuns(MaxDocs) : Len(run) <= MaxDocs}}

\* RAGChatbot(*args): __init__ takes no argument besides self, so a call
\* with arguments raises TypeError before the body runs; llmOk = FALSE: the
\* body (ChatGroq, DocumentProcessor, VectorStore) raised
RAGChatbot_init(nargs, llmOk) ==
    IF nargs # 0 THEN Refused("RAGChatbot", 0, "TypeError")
    ELSE Call("RAGChatbot", llmOk, 0, 0)

\* VectorStore() of vector_store_deploy.py: empty fields, then
\* _load_existing_data, which reports a failed load as a warning only
VectorStore_record(f, rebuildOk) ==
    LET s == load_existing_data(f, rebuildOk)
        warned == f.state = "corrupt" \/
                  (f.state = "ok" /\ f.documents # <<>> /\ ~rebuildOk)
    IN  [Call("VectorStore", TRUE, Len(s.documents), 0) EXCEPT
            !.why = IF warned THEN "Could not load existing data" ELSE ""]

VectorStore_init(rebuildOk) ==
    /\ variant = "faiss"
    /\ last = <<>>
    /\ LET s == load_existing_data(file, rebuildOk)
       IN  /\ documents' = s.documents
           /\ vectorstore' = s.vectorstore
    /\ last' = Push(VectorStore_record(file, rebuildOk))
    /\ UNCHANGED <<variant, runner, apiVars, fnVars, file, chromaVars, threadVars>>

\* initialize_components of streamlit_app_deploy.py (test_components of
\* test_config.py makes the same calls): VectorStore(), DocumentProcessor(),
\* RAGChatbot(vector_store, document_processor); any exception gives
\* (None, None).  processorOk = FALSE: DocumentProcessor() raised.
initialize_components(rebuildOk, processorOk) ==
    /\ variant = "faiss"
    /\ last = <<>>
    /\ LET s == load_existing_data(file, rebuildOk)
           built == IF ~processorOk THEN Call("initialize_components", FALSE, 0, 0)
                    ELSE LET c == RAGChatbot_init(2, TRUE)
                         IN  [c EXCEPT !.op = "initialize_components"]
       IN  /\ documents' = s.documents
           /\ vectorstore' = s.vectorstore
           /\ chatbot' = built.success
           /\ last' = <<built, VectorStore_record(file, rebuildOk)>>
    /\ UNCHANGED <<variant, runner, http, fnVars, file, chromaVars, threadVars>>

\* the module-level initialization of api.py: Config.validate(), then
\* RAGChatbot(); any exception leaves chatbot = None
api_startup(validateOk, llmOk) ==
    /\ variant = "chroma"
    /\ last = <<>>
    /\ LET c == IF ~validateOk
                THEN Refused("RAGChatbot", 0, "GROQ_API_KEY is required")
                ELSE RAGChatbot_init(0, llmOk)
       IN  /\ chatbot' = c.success
           /\ last' = Push(c)
    /\ UNCHANGED <<variant, runner, http, fnVars, faissVars, chromaVars, threadVars>>

\* before any component exists
InitStartup ==
    /\ variant \in {"faiss", "chroma"}
    /\ chatbot = FALSE
    /\ file \in (IF variant = "faiss" THEN Snapshots ELSE {Absent})
    /\ documents = <<>> /\ vectorstore = NoneStore
    /\ collection = <<>> /\ issued = <<>> /\ last = <<>>
    /\ pc = [t \in Threads |-> "idle"]
    /\ arg = [t \in Threads |-> <<>>]
    /\ local = [t \in Threads |-> Fresh]
    /\ log = <<>> /\ observed = [docs |-> 0, idx |-> 0] /\ committed = <<>>
    /\ http = NoExchange
    /\ input = <<>> /\ output = <<>>
    /\ runner = NoRunner

NextStartup ==
    \/ \E rebuildOk \in BOOLEAN : VectorStore_init(rebuildOk)
    \/ \E rebuildOk \in BOOLEAN, processorOk \in BOOLEAN :
          initialize_components(rebuildOk, processorOk)
    \/ \E validateOk \in BOOLEAN, llmOk \in BOOLEAN : api_startup(validateOk, llmOk)

SpecStartup == InitStartup /\ [][NextStartup]_vars

\* --------------------------- the results of RAGChatbot's methods, one call
\* The outcome of a piece of code: it raised, or it returned a value.
Raise(message) == [raised |-> TRUE, message |-> message]
Return(value) == [raised |-> FALSE, value |-> value]

\* VectorStore.similarity_search as the chatbot sees it: the number of
\* results, or an exception (searchOk = FALSE; a k that is not positive)
search_outcome(k, searchOk, count) ==
    IF ~searchOk \/ k <= 0 THEN Raise("search failed")
    ELSE Return(Min(k, count))

\* RAGChatbot.get_relevant_context: no try block, an exception of the search
\* goes on to the caller
get_relevant_context(k, searchOk, count) ==
    LET results == search_outcome(k, searchOk, count)
    IN  IF results.raised THEN results
        ELSE IF results.value = 0 THEN Return("No relevant context found.")
        ELSE Return("context")

\* RAGChatbot.generate_response: its own try block turns an exception of the
\* LLM call into the returned text
generate_response(llmOk) ==
    Return(IF llmOk THEN "answer" ELSE "Error generating response")

\* chat whose try block starts after the retrieval
chat_result_uncaught(k, searchOk, llmOk, count) ==
    LET context == get_relevant_context(k, searchOk, count)
    IN  IF context.raised THEN context
        ELSE Return([success |-> TRUE, response |-> generate_response(llmOk).value,
                     context |-> context.value, query |-> "q"])

\* RAGChatbot.chat: retrieval and generation inside one try block
chat_result(k, searchOk, llmOk, count) ==
    LET context == get_relevant_context(k, searchOk, count)
    IN  IF context.raised
        THEN Return([success |-> FALSE, response |-> "Error in chat",
                     context |-> "", query |-> "q"])
        ELSE Return([success |-> TRUE, response |-> generate_response(llmOk).value,
                     context |-> context.value, query |-> "q"])

\* RAGChatbot.add_document: process_document, then add_documents, inside one
\* try block
add_document_result(path, exists, n, procOk, addOk) ==
    LET loaded == load_document(path, exists)
        processed == IF loaded \in {"File not found", "Unsupported file type"}
                     THEN Raise(loaded)
                     ELSE IF ~procOk THEN Raise("error") ELSE Return(n)
        stored == IF processed.raised THEN processed
                  ELSE IF n = 0 THEN Raise("Expected IDs to be a non-empty list")
                  ELSE IF ~addOk THEN Raise("error")
                  ELSE Return(n)
    IN  IF stored.raised
        THEN Return([success |-> FALSE, message |-> "Error adding document"])
        ELSE Return([success |-> TRUE, message |-> "Successfully added document",
                     chunks_created |-> n])

\* RAGChatbot.clear_knowledge_base: clear_collection (delete_collection, then
\* create_collection) inside a try block
clear_knowledge_base_result(deleteOk, createOk) ==
    LET cleared == IF ~deleteOk \/ ~createOk THEN Raise("error") ELSE Return(0)
    IN  IF cleared.raised
        THEN Return([success |-> FALSE, message |-> "Error clearing knowledge base"])
        ELSE Return([success |-> TRUE, message |-> "Knowledge base cleared successfully"])

\* the calls: a method and what happens inside it
ChatCalls ==
    [method : {"chat"}, k : RequestedK, searchOk : BOOLEAN, llmOk : BOOLEAN,
     count : 0..MaxDocs]
AddCalls ==
    [method : {"add_document"}, path : Filenames, exists : BOOLEAN,
     n : 0..MaxBatch, procOk : BOOLEAN, addOk : BOOLEAN]
ClearCalls ==
    [method : {"clear_knowledge_base"}, deleteOk : BOOLEAN, createOk : BOOLEAN]

call_chat ==
    /\ ~output.called /\ input.method = "chat"
    /\ output' = Returned(chat_result(input.k, input.searchOk, input.llmOk, input.count))
    /\ UNCHANGED <<variant, runner, apiVars, input, last, faissVars, chromaVars, threadVars>>

call_add_document_result ==
    /\ ~output.called /\ input.method = "add_document"
    /\ output' = Returned(add_document_result(input.path, input.exists, input.n,
                                              input.procOk, input.addOk))
    /\ UNCHANGED <<variant, runner, apiVars, input, last, faissVars, chromaVars, threadVars>>

call_clear_knowledge_base ==
    /\ ~output.called /\ input.method = "clear_knowledge_base"
    /\ output' = Returned(clear_knowledge_base_result(input.deleteOk, input.createOk))
    /\ UNCHANGED <<variant, runner, apiVars, input, last, faissVars, chromaVars, threadVars>>

InitChatbot ==
    /\ Elsewhere
    /\ input \in ChatCalls \cup AddCalls \cup ClearCalls
    /\ output = NotCalled

NextChatbot == call_chat \/ call_add_document_result \/ call_clear_knowledge_base

SpecChatbot == InitChatbot /\ [][NextChatbot]_vars

\* ------------------------------------------------------------ run.py
\* The runner starts api.py (choice 1), streamlit (choice 2) or both
\* (choice 3) as child processes.  A child is "none" (not started),
\* "running", "signalled" (a termination signal was sent to it and it has
\* not exited yet; poll() is still None) or "exited".  `seen`:
\* start_api_server saw the API server running; `both`: the runner printed
\* "Both services are running"; `rounds`: completed rounds of the monitor
\* loop, counted up to MaxRounds; `exit` says how the runner ended: "SIGINT"
\* or "SIGTERM" (signal_handler), "error" (sys.exit(1)), "done" (main
\* returned).
\* rounds of the monitor loop that are told apart
MaxRounds == 2

Runs(child) == child \in {"running", "signalled"}

\* process.terminate(): SIGTERM to a child that has not exited
terminate(child) == IF child = "running" THEN "signalled" ELSE child

\* the steps of the runner leave the rest of the model alone
RunnerOnly ==
    UNCHANGED <<variant, apiVars, fnVars, last, faissVars, chromaVars, threadVars>>

\* main after start_api_server returned None: choice 3 prints and calls
\* sys.exit(1); choice 1 falls through `if api_process:` to break
api_not_started(r) ==
    [r EXCEPT !.pc = "exited", !.exit = IF r.mode = 3 THEN "error" ELSE "done"]

\* main after start_streamlit_app returned None: choice 3 calls
\* api_process.terminate() and sys.exit(1); choice 2 falls through to break
streamlit_not_started(r) ==
    IF r.mode = 3
    THEN [r EXCEPT !.api = terminate(r.api), !.pc = "exited", !.exit = "error"]
    ELSE [r EXCEPT !.pc = "exited", !.exit = "done"]

\* start_api_server: subprocess.Popen([sys.executable, "api.py"]); when Popen
\* raises, the function returns None
start_api_server_popen(popenOk) ==
    /\ runner.pc = "start_api"
    /\ runner' = IF popenOk
                 THEN [runner EXCEPT !.api = "running", !.pc = "api_started"]
                 ELSE api_not_started(runner)
    /\ RunnerOnly

\* start_api_server after time.sleep(3): process.poll() is None -> the
\* process is returned, and choice 1 goes on to api_process.wait(), choice 3
\* to start_streamlit_app; otherwise None is returned
start_api_server_poll ==
    /\ runner.pc = "api_started"
    /\ runner' = IF Runs(runner.api)
                 THEN [runner EXCEPT !.seen = TRUE,
                          !.pc = IF runner.mode = 3 THEN "start_streamlit" ELSE "wait"]
                 ELSE api_not_started(runner)
    /\ RunnerOnly

\* start_streamlit_app: Popen of streamlit
start_streamlit_app_popen(popenOk) ==
    /\ runner.pc = "start_streamlit"
    /\ runner' = IF popenOk
                 THEN [runner EXCEPT !.streamlit = "running", !.pc = "streamlit_started"]
                 ELSE streamlit_not_started(runner)
    /\ RunnerOnly

\* start_streamlit_app after time.sleep(5)
start_streamlit_app_poll ==
    /\ runner.pc = "streamlit_started"
    /\ runner' = IF Runs(runner.streamlit)
                 THEN IF runner.mode = 3
                      THEN [runner EXCEPT !.both = TRUE, !.pc = "poll_api"]
                      ELSE [runner EXCEPT !.pc = "wait"]
                 ELSE streamlit_not_started(runner)
    /\ RunnerOnly

\* choices 1 and 2: process.wait() returns when the child has exited; break
wait_returns ==
    /\ runner.pc = "wait"
    /\ IF runner.mode = 1 THEN runner.api = "exited" ELSE runner.streamlit = "exited"
    /\ runner' = [runner EXCEPT !.pc = "exited", !.exit = "done"]
    /\ RunnerOnly

\* the monitor loop without the terminate() of the other child
monitor_poll_api_only ==
    /\ runner.pc = "poll_api"
    /\ runner' = IF ~Runs(runner.api)
                 THEN [runner EXCEPT !.pc = "exited", !.exit = "done"]
                 ELSE [runner EXCEPT !.pc = "poll_streamlit"]
    /\ RunnerOnly

\* monitor loop: if api_process.poll() is not None: streamlit_process
\* .terminate(); break -> main returns
monitor_poll_api ==
    /\ runner.pc = "poll_api"
    /\ runner' = IF ~Runs(runner.api)
                 THEN [runner EXCEPT !.streamlit = terminate(runner.streamlit),
                                     !.pc = "exited", !.exit = "done"]
                 ELSE [runner EXCEPT !.pc = "poll_streamlit"]
    /\ RunnerOnly

\* monitor loop: if streamlit_process.poll() is not None: api_process
\* .terminate(); break; else time.sleep(1) and the next round
monitor_poll_streamlit ==
    /\ runner.pc = "poll_streamlit"
    /\ runner' = IF ~Runs(runner.streamlit)
                 THEN [runner EXCEPT !.api = terminate(runner.api),
                                     !.pc = "exited", !.exit = "done"]
                 ELSE [runner EXCEPT !.pc = "poll_api",
                                     !.rounds = Min(runner.rounds + 1, MaxRounds)]
    /\ RunnerOnly

\* a child process ends: on its own, or after a signal sent to it
api_exits ==
    /\ Runs(runner.api)
    /\ runner' = [runner EXCEPT !.api = "exited"]
    /\ RunnerOnly

streamlit_exits ==
    /\ Runs(runner.streamlit)
    /\ runner' = [runner EXCEPT !.streamlit = "exited"]
    /\ RunnerOnly

\* SIGINT or SIGTERM reaches the runner: signal_handler prints and calls
\* sys.exit(0); SystemExit passes the `except KeyboardInterrupt` and `except
\* Exception` clauses of main, so no terminate() runs.  group = TRUE: the
\* signal went to the whole foreground process group (Ctrl+C typed at the
\* terminal), so the children receive it too; group = FALSE: it went to
\* the runner alone (kill, a supervisor, an IDE stop button).
signal_handler(signum, group) ==
    /\ runner.pc \notin {"off", "exited"}
    /\ group => signum = "SIGINT"
    /\ runner' = [runner EXCEPT
                    !.pc = "exited", !.exit = signum,
                    !.api = IF group THEN terminate(runner.api) ELSE runner.api,
                    !.streamlit = IF group THEN terminate(runner.streamlit)
                                  ELSE runner.streamlit]
    /\ RunnerOnly

\* the user has made a choice
InitRunner ==
    /\ \E choice \in 1..3 :
          runner = [NoRunner EXCEPT !.mode = choice,
                       !.pc = IF choice = 2 THEN "start_streamlit" ELSE "start_api"]
    /\ variant = "chroma"
    /\ chatbot = FALSE
    /\ documents = <<>> /\ vectorstore = NoneStore /\ file = Absent
    /\ collection = <<>> /\ issued = <<>> /\ last = <<>>
    /\ pc = [t \in Threads |-> "idle"]
    /\ arg = [t \in Threads |-> <<>>]
    /\ local = [t \in Threads |-> Fresh]
    /\ log = <<>> /\ observed = [docs |-> 0, idx |-> 0] /\ committed = <<>>
    /\ http = NoExchange
    /\ input = <<>> /\ output = <<>>

NextRunner ==
    \/ \E popenOk \in BOOLEAN : start_api_server_popen(popenOk)
    \/ start_api_server_poll
    \/ \E popenOk \in BOOLEAN : start_streamlit_app_popen(popenOk)
    \/ start_streamlit_app_poll
    \/ wait_returns
    \/ monitor_poll_api
    \/ monitor_poll_streamlit
    \/ api_exits
    \/ streamlit_exits
    \/ \E signum \in {"SIGINT", "SIGTERM"}, group \in BOOLEAN : signal_handler(signum, group)

SpecRunner == InitRunner /\ [][NextRunner]_vars

\* --------------------------------- faiss variant: statement by statement
\* cap on the mutations begun since the process started
MaxOps == 3

\* self.vectorstore is rebound by thread t: every other reference to the old
\* index object now points at an orphan
RebindVectorstore(t) ==
    [u \in Threads |->
        IF u # t /\ local[u].vs = "cur"
        THEN [local[u] EXCEPT !.vs = "orphan"] ELSE local[u]]

\* self.documents is rebound by thread t: a reference taken by _save_data
\* keeps the old list with its content
RebindDocuments(t) ==
    [u \in Threads |->
        IF u # t /\ local[u].docs = "cur"
        THEN [local[u] EXCEPT !.docs = "orphan", !.saved = documents]
        ELSE local[u]]

\* add_documents lines 60-64: a non-empty argument is appended to self.documents
add_extend(t, docs) ==
    /\ pc[t] = "idle"
    /\ docs # <<>>
    /\ Len(log) < MaxOps
    /\ Len(documents) + Len(docs) <= MaxDocs
    /\ documents' = documents \o docs
    /\ pc' = [pc EXCEPT ![t] = "add67"]
    /\ arg' = [arg EXCEPT ![t] = docs]
    /\ local' = [local EXCEPT ![t] = Fresh]
    /\ log' = Append(log, [op |-> "add", docs |-> docs])
    /\ UNCHANGED <<variant, runner, apiVars, fnVars, vectorstore, file, chromaVars, last, observed, committed>>

\* lines 67-68: texts = [doc.page_content for doc in self.documents]
add_texts(t) ==
    /\ pc[t] = "add67"
    /\ local' = [local EXCEPT ![t].texts = documents]
    /\ pc' = [pc EXCEPT ![t] = "add70"]
    /\ UNCHANGED <<variant, runner, apiVars, fnVars, faissVars, chromaVars, last, arg, log, observed, committed>>

\* line 70: if self.vectorstore is None
add_branch(t) ==
    /\ pc[t] = "add70"
    /\ pc' = [pc EXCEPT ![t] = IF vectorstore.built THEN "add80" ELSE "add71"]
    /\ UNCHANGED <<variant, runner, apiVars, fnVars, faissVars, chromaVars, last, arg, local, log, observed, committed>>

\* lines 71-75: self.vectorstore = FAISS.from_texts(texts, ...)
add_from_texts(t) ==
    /\ pc[t] = "add71"
    /\ vectorstore' = FromTexts(local[t].texts)
    /\ local' = RebindVectorstore(t)
    /\ pc' = [pc EXCEPT ![t] = "save49"]
    /\ UNCHANGED <<variant, runner, apiVars, fnVars, documents, file, chromaVars, last, arg, log, observed, committed>>

\* line 80, the attribute load: self.vectorstore.add_texts raises
\* AttributeError when a clear has set it to None since line 70, and the
\* handler returns the failure
add_load(t) ==
    /\ pc[t] = "add80"
    /\ IF vectorstore.built
       THEN /\ local' = [local EXCEPT ![t].vs = "cur"]
            /\ pc' = [pc EXCEPT ![t] = "add80b"]
       ELSE /\ pc' = [pc EXCEPT ![t] = "idle"]
            /\ local' = [local EXCEPT ![t] = Fresh]
    /\ UNCHANGED <<variant, runner, apiVars, fnVars, faissVars, chromaVars, last, arg, log, observed, committed>>

\* line 80, inside add_texts: the new texts are appended to the index object
\* the thread loaded, which self.vectorstore may no longer point at
add_index(t) ==
    /\ pc[t] = "add80b"
    /\ vectorstore' = IF local[t].vs = "cur"
                      THEN AddTexts(vectorstore, arg[t]) ELSE vectorstore
    /\ pc' = [pc EXCEPT ![t] = "save49"]
    /\ UNCHANGED <<variant, runner, apiVars, fnVars, documents, file, chromaVars, last, arg, local, log, observed, committed>>

\* _save_data lines 49-51: data = {'documents': self.documents}
save_capture(t) ==
    /\ pc[t] = "save49"
    /\ local' = [local EXCEPT ![t].docs = "cur"]
    /\ pc' = [pc EXCEPT ![t] = "save52"]
    /\ UNCHANGED <<variant, runner, apiVars, fnVars, faissVars, chromaVars, last, arg, log, observed, committed>>

\* _save_data line 52: open(storage_file, 'wb') truncates the snapshot
save_open(t) ==
    /\ pc[t] = "save52"
    /\ file' = Corrupt
    /\ local' = [local EXCEPT ![t].fd = "open"]
    /\ pc' = [pc EXCEPT ![t] = "save53"]
    /\ UNCHANGED <<variant, runner, apiVars, fnVars, documents, vectorstore, chromaVars, last, arg, log, observed, committed>>

\* _save_data line 53 and the end of the with block: the list the thread
\* captured is pickled and the file closed; add_documents returns success.
\* A file removed since it was opened takes the bytes with it.
save_dump(t) ==
    /\ pc[t] = "save53"
    /\ file' = IF local[t].fd = "unlinked" THEN file
               ELSE Pickled(IF local[t].docs = "cur" THEN documents ELSE local[t].saved)
    /\ local' = [local EXCEPT ![t] = Fresh]
    /\ pc' = [pc EXCEPT ![t] = "idle"]
    /\ committed' = documents
    /\ UNCHANGED <<variant, runner, apiVars, fnVars, documents, vectorstore, chromaVars, last, arg, log, observed>>

\* clear_all line 133: self.documents = []
clear_documents(t) ==
    /\ pc[t] = "idle"
    /\ Len(log) < MaxOps
    /\ documents' = <<>>
    /\ local' = [RebindDocuments(t) EXCEPT ![t] = Fresh]
    /\ pc' = [pc EXCEPT ![t] = "clear134"]
    /\ log' = Append(log, [op |-> "clear", docs |-> <<>>])
    /\ UNCHANGED <<variant, runner, apiVars, fnVars, vectorstore, file, chromaVars, last, arg, observed, committed>>

\* clear_all line 134: self.vectorstore = None
clear_vectorstore(t) ==
    /\ pc[t] = "clear134"
    /\ vectorstore' = NoneStore
    /\ local' = RebindVectorstore(t)
    /\ pc' = [pc EXCEPT ![t] = "clear137"]
    /\ UNCHANGED <<variant, runner, apiVars, fnVars, documents, file, chromaVars, last, arg, log, observed, committed>>

\* os.remove(storage_file): a thread that has the file open keeps writing to
\* the removed file
Unlink(t) ==
    [u \in Threads |->
        IF u # t /\ local[u].fd = "open"
        THEN [local[u] EXCEPT !.fd = "unlinked"] ELSE local[u]]

\* clear_all lines 137-141: the snapshot is removed when it exists; return
clear_remove(t) ==
    /\ pc[t] = "clear137"
    /\ file' = Absent
    /\ local' = [Unlink(t) EXCEPT ![t] = Fresh]
    /\ pc' = [pc EXCEPT ![t] = "idle"]
    /\ committed' = <<>>
    /\ UNCHANGED <<variant, runner, apiVars, fnVars, documents, vectorstore, chromaVars, last, arg, log, observed>>

\* what a reader finds at the moment it reads the store
Sizes == [docs |-> Len(documents), idx |-> IndexSize(vectorstore)]

\* get_stats, one read of self.documents
stats_read(t) ==
    /\ pc[t] = "idle"
    /\ observed' = Sizes
    /\ UNCHANGED <<variant, runner, apiVars, fnVars, faissVars, chromaVars, last, pc, arg, local, log, committed>>

\* similarity_search line 97: if self.vectorstore is None: return []
search_check(t) ==
    /\ pc[t] = "idle"
    /\ observed' = Sizes
    /\ pc' = [pc EXCEPT ![t] = IF vectorstore.built THEN "search100" ELSE "idle"]
    /\ UNCHANGED <<variant, runner, apiVars, fnVars, faissVars, chromaVars, last, arg, local, log, committed>>

\* similarity_search line 100: the search on whatever self.vectorstore is now
search_run(t) ==
    /\ pc[t] = "search100"
    /\ observed' = Sizes
    /\ pc' = [pc EXCEPT ![t] = "idle"]
    /\ UNCHANGED <<variant, runner, apiVars, fnVars, faissVars, chromaVars, last, arg, local, log, committed>>

\* the process dies and is started again: every thread is gone, memory is
\* rebuilt from the snapshot by _load_existing_data
CrashRestart ==
    /\ LET s == load_existing_data(file, TRUE)
       IN  /\ documents' = s.documents
           /\ vectorstore' = s.vectorstore
    /\ pc' = [t \in Threads |-> "idle"]
    /\ arg' = [t \in Threads |-> <<>>]
    /\ local' = [t \in Threads |-> [Fresh EXCEPT !.diedAt = pc[t]]]
    /\ log' = <<>>
    /\ UNCHANGED <<variant, runner, apiVars, fnVars, file, chromaVars, last, observed, committed>>

NonEmptyBatches == Batches \ {<<>>}

Step(t) ==
    \/ \E docs \in NonEmptyBatches : add_extend(t, docs)
    \/ add_texts(t)
    \/ add_branch(t)
    \/ add_from_texts(t)
    \/ add_load(t)
    \/ add_index(t)
    \/ save_capture(t)
    \/ save_open(t)
    \/ save_dump(t)
    \/ clear_documents(t)
    \/ clear_vectorstore(t)
    \/ clear_remove(t)
    \/ stats_read(t)
    \/ search_check(t)
    \/ search_run(t)

InitFaiss == Init /\ variant = "faiss"

NextConc == \E t \in Threads : Step(t)

SpecConc == InitFaiss /\ [][NextConc]_vars

NextCrash == Step(1) \/ CrashRestart

SpecCrash == InitFaiss /\ [][NextCrash]_vars

\* ================================================================= claims
\* chunks held by the document store of the running variant
ChunksHeld == IF variant = "faiss" THEN Len(documents) ELSE Len(collection)

\* entries in the index of the running variant (the chroma collection is
\* both the document store and the index)
IndexEntries == IF variant = "faiss" THEN IndexSize(vectorstore) ELSE Len(collection)

IsPrefix(a, b) == Len(a) <= Len(b) /\ SubSeq(b, 1, Len(a)) = a

\* the step is an ingest call / a query call / a clear call
IngestStep ==
    \/ \E docs \in Batches, embedOk \in BOOLEAN, so \in SaveOutcomes :
          add_documents(docs, embedOk, so)
    \/ \E path \in SomePaths, exists \in BOOLEAN : add_document(path, exists)

QueryStep ==
    \/ \E k \in 1..MaxK, searchOk \in BOOLEAN : similarity_search(k, searchOk)
    \/ \E k \in 1..MaxK, searchOk \in BOOLEAN : chat(k, searchOk)

\* C1: after any sequence of ingest and clear calls, failed ones included, the
\* index has as many entries as the document store has chunks (no index = 0).
C1_IndexStoreAligned == IndexEntries = ChunksHeld

\* C2: an ingest call that fails leaves the document store and the index
\* exactly as they were before the call.
C2_FailedIngestChangesNothing ==
    [][(IngestStep /\ ~last'[1].success)
          => (documents' = documents /\ vectorstore' = vectorstore
              /\ collection' = collection)]_vars

\* C3: the chunk ids handed out are 0, 1, 2, ... in order, across successive
\* ingest calls: unique, strictly increasing, starting at 0.
C3_IdsStrictlyIncreasing == \A i \in 1..Len(issued) : issued[i] = i - 1

\* C4: a query or stats call that runs while an ingest or a clear is in
\* flight never finds the index with more or fewer entries than the
\* document store.
C4_ReaderSeesAlignedStore == observed.docs = observed.idx

\* the store after running one mutation on its own
SerialApply(st, op) ==
    IF op.op = "clear"
    THEN [documents |-> <<>>, vectorstore |-> NoneStore]
    ELSE [documents |-> st.documents \o op.docs,
          vectorstore |-> UpdateIndex(st.vectorstore, st.documents \o op.docs, op.docs)]

RECURSIVE SerialRun(_, _, _)
\* the store after running log[order[i]], ..., log[order[n]] one after another
SerialRun(st, order, i) ==
    IF i > Len(log) THEN st
    ELSE SerialRun(SerialApply(st, log[order[i]]), order, i + 1)

Orders(n) == {f \in [1..n -> 1..n] : \A i, j \in 1..n : i # j => f[i] # f[j]}

Quiescent == \A t \in Threads : pc[t] = "idle"

\* C5: when every call has returned, the document store and the index are
\* what running the mutations begun so far one after another, in some order,
\* would have produced.
C5_MutationsSerializable ==
    Quiescent =>
        \E f \in Orders(Len(log)) :
            SerialRun([documents |-> <<>>, vectorstore |-> NoneStore], f, 1)
                = [documents |-> documents, vectorstore |-> vectorstore]

\* C6: after every successful ingest or clear, a restart rehydrates the same
\* chunks in the same order and an index of the same size.
C6_SnapshotMatchesAfterMutation ==
    (/\ variant = "faiss"
     /\ last # <<>>
     /\ last[1].op \in {"add_documents", "clear"}
     /\ last[1].success)
        => LET s == load_existing_data(file, TRUE)
           IN  /\ s.documents = documents
               /\ IndexSize(s.vectorstore) = IndexSize(vectorstore)

\* the statements of add_documents after the in-memory append, up to the end
\* of the snapshot write
Window == {"add67", "add70", "add71", "add80", "add80b", "save49", "save52", "save53"}

\* C7: after a crash that hit an ingest between its in-memory mutation and
\* the end of its snapshot write, the rehydrated document list starts with
\* every chunk held after the latest completed mutation.
C7_CrashLosesAtMostLastBatch ==
    \A t \in Threads :
        (pc[t] = "idle" /\ local[t].diedAt \in Window) => IsPrefix(committed, documents)

\* C8: once a clear is the latest mutation and every call has returned, no
\* snapshot of chunks remains: a restart rehydrates an empty collection.
C8_NoSnapshotAfterClear ==
    (Quiescent /\ log # <<>> /\ log[Len(log)].op = "clear")
        => load_existing_data(file, TRUE).documents = <<>>

\* C9: the collection leaves EMPTY only through a successful ingest and
\* leaves POPULATED only through clear (a restart rehydrates and is neither),
\* and a query changes neither the chunks, the index nor the snapshot.
C9_StateMachine ==
    [][/\ (ChunksHeld = 0 /\ ChunksHeld' > 0)
            => \/ last'[1].op = "restart"
               \/ last'[1].op \in {"add_documents", "add_document"} /\ last'[1].success
       /\ (ChunksHeld > 0 /\ ChunksHeld' = 0) => last'[1].op \in {"clear", "restart"}
       /\ QueryStep => UNCHANGED <<documents, vectorstore, file, collection>>]_vars

TwoClears == Len(last) = 2 /\ last[1].op = "clear" /\ last[2].op = "clear"

Queried == last # <<>> /\ last[1].op = "similarity_search"

\* C11: a query against a store that holds no chunks, with no fault in the
\* search, returns no results and reports no error, whatever positive k it
\* asks for; this covers a store nothing was ingested into and a cleared one.
C11_EmptyStoreQueryIsEmpty ==
    [][(ChunksHeld = 0
          /\ \E k \in 1..MaxK : similarity_search(k, TRUE) \/ chat(k, TRUE))
       => (last'[1].n = 0 /\ last'[1].success)]_vars

\* a query that followed a clear of a populated store came back empty, no error
C11_Witness ==
    /\ Queried /\ Len(last) = 2
    /\ last[2].op = "clear" /\ last[2].before > 0
    /\ ChunksHeld = 0
    /\ last[1].n = 0 /\ last[1].success

\* C12: a query that reports no error and returns no results ran against an
\* index with no entries; a fault in the search is never turned into an
\* empty result.
C12_EmptyResultOnlyWhenEmpty ==
    (Queried /\ last[1].success /\ last[1].n = 0) => IndexEntries = 0

\* an ingest of a document that yields no chunks (nothing is embedded or
\* saved for an empty list, so no fault of those steps can show)
ZeroChunkIngest ==
    \/ add_documents(<<>>, TRUE, "ok")
    \/ /\ variant = "chroma"
       /\ \E src \in Sources, addOk \in BOOLEAN : Ingest(src, 0, TRUE, addOk)
       /\ \E path \in SomePaths : add_document(path, TRUE)

\* C13: an ingest whose document yields zero chunks fails: it reports no
\* success and no chunks_created, and leaves the store and the snapshot as
\* they were.
C13_ZeroChunksRejected ==
    [][ZeroChunkIngest
       => (/\ ~last'[1].success
           /\ last'[1].n = 0
           /\ last'[1].why \in {"No documents to add", "Expected IDs to be a non-empty list"}
           /\ UNCHANGED <<documents, vectorstore, file, collection, issued>>)]_vars

\* a zero-chunk ingest into a populated store was refused
C13_Witness ==
    /\ last # <<>>
    /\ last[1].why \in {"No documents to add", "Expected IDs to be a non-empty list"}
    /\ last[1].before > 0
    /\ ChunksHeld = last[1].before

\* the words that are a supported extension in some spelling
SupportedWords == {"pdf", "PDF", "txt", "md"}

\* the name ends in a dot and a supported word, after something that is a name
Supported(name) ==
    /\ Len(name) >= 3
    /\ name[Len(name) - 1] = "." /\ name[Len(name)] \in SupportedWords
    /\ \E j \in 1..(Len(name) - 2) : name[j] # "."

\* the name does not end in a dot and a supported word
Unsupported(name) ==
    ~(Len(name) >= 2 /\ name[Len(name) - 1] = "." /\ name[Len(name)] \in SupportedWords)

\* C14: a file whose extension is none of .pdf, .txt, .md in any letter case
\* is rejected before a temporary file is written or a chunk stored, with
\* HTTP 400 by the upload endpoint of an initialised API and with the
\* unsupported-file-type failure by the loader; the collection is unchanged.
C14_UnsupportedTypeRejected ==
    [][(http.status = 0 /\ chatbot /\ Unsupported(http.name))
       => (/\ http.endpoint = "upload"
              => (http'.status = 400 /\ ~http'.temp /\ last' = last)
           /\ (http.endpoint = "add_document" /\ http.exists)
              => (~last'[1].success /\ last'[1].why = "Unsupported file type")
           /\ http.endpoint \in {"upload", "add_document"}
              => UNCHANGED <<collection, issued>>)]_vars

\* an upload to a populated collection was refused for its file type
C14_Witness ==
    /\ http.endpoint = "upload" /\ http.status = 400
    /\ http.detail = "Unsupported file type"
    /\ ~http.temp
    /\ Len(collection) > 0

\* C15: an upload of more than 10 MiB is rejected with HTTP 400 before a
\* temporary file is written or ingestion starts, the collection unchanged;
\* an upload of exactly 10 MiB with a supported extension is not rejected.
C15_UploadSizeLimit ==
    [][(Waiting("upload") /\ chatbot)
       => (/\ http.size > 10 * 1024 * 1024
              => (/\ http'.status = 400 /\ ~http'.temp
                  /\ UNCHANGED <<collection, issued, last>>)
           /\ (http.size = 10 * 1024 * 1024 /\ Supported(http.name))
              => (http'.status # 400 /\ http'.temp))]_vars

\* an oversized upload with a supported extension was refused, the collection populated
C15_Witness ==
    /\ http.endpoint = "upload" /\ http.status = 400
    /\ http.detail = "File too large"
    /\ http.size > 10 * 1024 * 1024
    /\ ~http.temp
    /\ Len(collection) > 0

\* C16: retrieval is reached only with a positive k; a chat request whose k
\* is zero or negative is rejected before any search is run.
C16_OnlyPositiveKSearched == http.searched => http.k > 0

\* C17: an insert whose texts and metadata differ in number fails with the
\* arity-mismatch error and stores nothing.
C17_ArityMismatchStoresNothing ==
    [][(/\ variant = "chroma"
        /\ \E texts \in Batches, metadata \in MetadataLists :
              /\ Len(texts) # Len(metadata)
              /\ \E addOk \in BOOLEAN : store_add_documents(texts, metadata, addOk))
       => (/\ ~last'[1].success
           /\ last'[1].why = "Number of texts must match number of metadata entries"
           /\ UNCHANGED <<collection, issued>>)]_vars

\* an insert with mismatched lists into a populated collection was refused
C17_Witness ==
    /\ last # <<>>
    /\ last[1].op = "store_add_documents"
    /\ last[1].why = "Number of texts must match number of metadata entries"
    /\ last[1].before > 0 /\ Len(collection) = last[1].before

\* C18: get_embeddings returns one vector per input text, in input order,
\* and batching does not show: the embeddings of A followed by B are the
\* embeddings of A followed by the embeddings of B, for lists shorter than,
\* equal to and longer than one batch of 32.
C18_EmbeddingsIgnoreBatching ==
    output.called =>
        LET texts == input.A \o input.B
        IN  /\ Len(output.value) = Len(texts)
            /\ \A i \in 1..Len(texts) : output.value[i] = Vector(texts[i])
            /\ output.value = get_embeddings(input.A) \o get_embeddings(input.B)

\* a call whose input crosses a batch boundary inside B, A not a whole batch
C18_Witness ==
    /\ output.called
    /\ Len(input.A) > 0 /\ Len(input.A) < 32
    /\ Len(input.A) + Len(input.B) > 32
    /\ Len(output.value) = Len(input.A) + Len(input.B)

\* the chunks from number i on can be laid over the text left to right, each
\* starting no later than one past the end of the one before, and the last
\* ends where the text ends
RECURSIVE Laid(_, _, _, _, _)
Laid(text, chunks, i, prevStart, prevEnd) ==
    IF i > Len(chunks) THEN prevEnd = Len(text)
    ELSE \E start \in prevStart..(prevEnd + 1) :
            LET end == start + Len(chunks[i]) - 1
            IN  /\ end <= Len(text)
                /\ SubSeq(text, start, end) = chunks[i]
                /\ Laid(text, chunks, i + 1, start, end)

\* C20: chunking a text with chunk_size C and overlap O, 0 <= O < C, gives
\* chunks of at most C characters each that, laid left to right with the
\* overlaps removed, give back the text with no character dropped; an empty
\* text gives no chunks.
C20_ChunksCoverText ==
    output.called =>
        /\ \A i \in 1..Len(output.value) : Len(output.value[i]) <= input.chunk_size
        /\ Laid(input.text, output.value, 1, 1, 0)
        /\ input.text = <<>> => output.value = <<>>

\* C21: within one ingested source the chunks' chunk_id are 0, 1, ..., n-1
\* in the order the chunker produced the chunks, so no two chunks of the
\* ingest share a chunk_id, and every chunk carries the ingest's source.
C21_ChunkIdsInChunkerOrder ==
    output.called =>
        LET chunks == chunk_documents(input.text, input.chunk_size, input.chunk_overlap)
            metadata == output.value.metadata
        IN  /\ output.value.texts = chunks
            /\ Len(metadata) = Len(chunks)
            /\ \A i \in 1..Len(metadata) :
                  /\ metadata[i].chunk_id = i - 1
                  /\ metadata[i].source = input.source
            /\ \A i, j \in 1..Len(metadata) :
                  i # j => metadata[i].chunk_id # metadata[j].chunk_id
            /\ metadata = process_document(input.source, Len(chunks))

\* a document that gave three chunks has been processed
C21_Witness ==
    /\ output.called
    /\ Len(output.value.metadata) = 3
    /\ output.value.metadata[3] = Chunk(input.source, 2)

\* C22: a chunker configured with overlap >= chunk_size, the boundary
\* overlap = chunk_size included, is refused at construction, so no document
\* is chunked under such a configuration.
C22_OverlapBelowChunkSize ==
    /\ (last # <<>> /\ input.chunk_overlap >= input.chunk_size) => ~last[1].success
    /\ output.called => input.chunk_overlap < input.chunk_size

\* the statistics a stats call returns in the current state, and the chunks
\* the store holds
StatsNow ==
    IF variant = "faiss" THEN get_stats_value(documents)
    ELSE get_collection_stats(collection)

StoredChunks ==
    IF variant = "faiss" THEN documents
    ELSE [i \in 1..Len(collection) |-> collection[i].doc]

\* the chunk count of a statistics record: total_chunks where there is one,
\* else the record's only count
ReportedChunks(stats) ==
    IF "total_chunks" \in DOMAIN stats THEN stats.total_chunks
    ELSE stats.total_documents

\* C23: after any sequence of ingest and clear calls, stats reports a chunk
\* count equal to the number of chunks stored and a source count equal to
\* the number of distinct sources among them; both are 0 on an empty store.
C23_StatsCountChunksAndSources ==
    LET stats == StatsNow
        sources == {StoredChunks[i].source : i \in 1..Len(StoredChunks)}
    IN  /\ ReportedChunks(stats) = Len(StoredChunks)
        /\ "source_files" \in DOMAIN stats
        /\ stats.total_documents = Cardinality(sources)


\* C24: the chatbot can be constructed from an already-built vector store
\* and document processor: with a valid configuration the construction
\* succeeds and component initialization ends with a chatbot.
C24_InjectedConstructionSucceeds ==
    (/\ last # <<>>
     /\ last[1].op = "initialize_components"
     /\ last[1].why # "error")
        => (last[1].success /\ chatbot)


\* C25: while both services run under the runner (choice 3), Ctrl+C
\* (SIGINT) terminates both the API server process and the Streamlit
\* process before the runner exits.
C25_SigintStopsBothChildren ==
    (runner.mode = 3 /\ runner.both /\ runner.exit = "SIGINT")
        => (runner.api # "running" /\ runner.streamlit # "running")

\* C27: under choice 3 the runner never ends, other than by a signal, with
\* exactly one of the two children running: Streamlit is started only after
\* the API server was seen running, a failed Streamlit start terminates the
\* API server, and a child seen exited by the monitor loop gets the other
\* one terminated.
C27_NeverLeavesOneChild ==
    /\ (runner.mode = 3 /\ runner.exit \in {"error", "done"})
          => ((runner.api = "running") <=> (runner.streamlit = "running"))
    /\ (runner.mode = 3 /\ runner.streamlit # "none") => runner.seen

\* the monitor loop saw the API server gone and terminated Streamlit
C27_Witness ==
    /\ runner.mode = 3 /\ runner.both
    /\ runner.exit = "done"
    /\ runner.api = "exited" /\ runner.streamlit = "signalled"


\* C26: an ingest that reports success with chunks_created = n leaves the
\* collection holding exactly n chunks more than before it, on an empty
\* collection and on a non-empty one.
C26_SuccessfulIngestAddsN ==
    (/\ variant = "chroma"
     /\ last # <<>>
     /\ last[1].op = "add_document"
     /\ last[1].success)
        => get_collection_stats(collection).total_documents
              = last[1].before + last[1].n


\* the handler of a waiting request answers it in this step
Answered(endpoints) ==
    /\ http.status = 0
    /\ http.endpoint \in endpoints
    /\ http'.status # 0

\* C28: when the chatbot was not constructed at API startup, every /chat,
\* /upload-document, /stats and /clear-knowledge-base request is answered
\* with HTTP 500 and no chatbot method runs (nothing of the collection is
\* read or changed, no temporary file is written), while /health answers
\* 200 with chatbot_initialized = false.
C28_NoChatbotAnswers500 ==
    [][/\ (~chatbot /\ Answered({"chat", "upload", "stats", "clear"}))
          => /\ http'.status = 500
             /\ http'.detail = "Chatbot not initialized"
             /\ ~http'.searched /\ ~http'.temp
             /\ UNCHANGED <<collection, issued, last, chatbot>>
       /\ (~chatbot /\ Answered({"health"}))
          => /\ http'.status = 200
             /\ ~http'.initialized
             /\ UNCHANGED <<collection, issued, last, chatbot>>]_vars

\* without a chatbot, a stats request was answered after an earlier request
C28_Witness ==
    /\ ~chatbot
    /\ http.endpoint = "stats" /\ http.status = 500
    /\ http.seq = 2


\* something failed inside the call: the retrieval, the ingestion (loading,
\* processing, storing) or the clearing
FailureInside ==
    IF input.method = "chat" THEN ~input.searchOk \/ input.k <= 0
    ELSE IF input.method = "add_document"
    THEN \/ ~input.exists \/ ~input.procOk \/ ~input.addOk \/ input.n = 0
         \/ lower(splitext(input.path)) \notin allowed_extensions
    ELSE ~input.deleteOk \/ ~input.createOk

\* the text a result carries: its message, or the response of a chat result
MessageOf(result) ==
    IF "message" \in DOMAIN result THEN result.message ELSE result.response

\* C29: chat, add_document and clear_knowledge_base never propagate an
\* exception: a failure of retrieval, ingestion or clearing comes back as a
\* result with success = false and a message, and a chat result always has
\* the four keys success, response, context and query.
C29_ChatbotMethodsReturnResults ==
    output.called =>
        /\ ~output.value.raised
        /\ LET result == output.value.value
           IN  /\ FailureInside => (~result.success /\ MessageOf(result) # "")
               /\ ~FailureInside => result.success
               /\ input.method = "chat"
                     => DOMAIN result = {"success", "response", "context", "query"}

\* a chat whose retrieval raised has returned
C29_Witness ==
    /\ output.called
    /\ input.method = "chat" /\ ~input.searchOk /\ input.k > 0
    /\ ~output.value.raised
    /\ ~output.value.value.success


\* the record of the latest VectorStore() construction
Constructed == last # <<>> /\ last[Len(last)].op = "VectorStore"

\* C30: startup never fails because of the snapshot: with the snapshot
\* absent, unreadable or corrupt, or the index rebuild raising, the store
\* starts with no documents and no index; in every outcome the documents and
\* the index are aligned: both empty, or both built from the loaded chunks.
C30_StartupSurvivesSnapshot ==
    Constructed =>
        /\ last[Len(last)].success
        /\ (file.state # "ok" \/ last[Len(last)].why # "")
              => (documents = <<>> /\ vectorstore = NoneStore)
        /\ \/ documents = <<>> /\ vectorstore = NoneStore
           \/ /\ documents # <<>>
              /\ documents = file.documents
              /\ vectorstore = FromTexts(documents)

\* a store constructed over a readable snapshot whose index rebuild raised
C30_Witness ==
    /\ Constructed
    /\ file.state = "ok" /\ file.documents # <<>>
    /\ last[Len(last)].why = "Could not load existing data"
    /\ documents = <<>>

====
